---------------------------- MODULE Spec2Model ----------------------------
(***************************************************************************)
(* State-machine model of src/algorithms.js: PriorityQueue, LRUCache,      *)
(* TokenBucket, NotificationBatcher and exponentialBackoff.                *)
(*                                                                         *)
(* Every component has its own specification (SpecPQ, SpecPQSnapshot,      *)
(* SpecLRU, SpecTB, SpecNB, SpecEB); the variables of the other            *)
(* components keep their constructed values.                               *)
(*                                                                         *)
(* JavaScript arrays are 0-based; the model keeps the code's 0-based       *)
(* indices and reads element c of array h as At(h, c) == h[c + 1].         *)
(***************************************************************************)
EXTENDS Integers, Sequences, FiniteSets

VARIABLES
    \* ---- PriorityQueue ----
    heap,        \* this.heap: array of ticket objects (top-level fields)
    store,       \* JS object memory: address -> value of a nested field
    snapshot,    \* the value last returned by getAll(), held by the caller
    pqOp,        \* the last PriorityQueue call made
    pqRet,       \* the value that call returned
    extracted,   \* every entry extractMax has returned, in call order
    run,         \* entries extractMax has returned since the last insert
    inserted,    \* every ticket passed to insert, in call order
    \* ---- LRUCache ----
    cache,       \* this.cache: the Map's entries in insertion order
    lruCapacity, \* this.capacity
    lruLog,      \* every LRUCache call made, in call order, with its result
    \* ---- TokenBucket ----
    now,         \* Date.now(), in ms since the bucket was constructed
    tbCapacity,  \* this.capacity, in tokens
    refillRate,  \* this.refillRate, in tokens per second
    tokens,      \* this.tokens, in thousandths of a token
    lastRefill,  \* this.lastRefill, in ms
    tbCall,      \* the last TokenBucket event (a call with its result, or
                 \* a clock tick)
    grants,      \* the successful consume calls of positive amounts, each
                 \* with its time
    \* ---- NotificationBatcher ----
    batch,       \* this.batch
    batchSize,   \* this.batchSize
    timer,       \* this.timer: a timeout handle, or 0 for null
    pending,     \* the handles of the timeouts armed and neither fired nor
                 \* cleared
    removed,     \* the snapshots (toSend) taken by flush, in order
    emitted,     \* the snapshots a caller of flush() has received, in order
    nAdded,      \* number of add calls so far
    nbCall,      \* the last NotificationBatcher event
    flushInterval, \* this.flushInterval, in units of time
    timerLeft,   \* the time until the pending timeout is due
    age,         \* the time the oldest notification has been in the batch
    \* ---- exponentialBackoff ----
    maxRetries,  \* the maxRetries argument
    ebPc,        \* where the async function is: "test" (the loop test),
                 \* "await_op", "await_delay", "done"
    i,           \* the loop variable
    inFlight,    \* invocations of operation() not yet settled
    attempts,    \* invocations of operation() started
    ebLog,       \* how each settled attempt ended, in order
    delays,      \* the delays (ms) slept, in order
    outcome,     \* how the call settled
    \* ---- the pure functions ----
    fnCall,      \* the function called ("none" before the call)
    fnArgs,      \* its arguments
    fnResult     \* the value it returned

pqVars == <<heap, store, snapshot, pqOp, pqRet, extracted, run, inserted>>

lruVars == <<cache, lruCapacity, lruLog>>

tbVars == <<now, tbCapacity, refillRate, tokens, lastRefill, tbCall, grants>>

nbVars ==
    <<batch, batchSize, timer, pending, removed, emitted, nAdded, nbCall,
      flushInterval, timerLeft, age>>

ebVars == <<maxRetries, ebPc, i, inFlight, attempts, ebLog, delays, outcome>>

fnVars == <<fnCall, fnArgs, fnResult>>

vars == <<pqVars, lruVars, tbVars, nbVars, ebVars, fnVars>>

\* What the calls of one component leave alone: the other components.
notPQ == <<lruVars, tbVars, nbVars, ebVars, fnVars>>
notLRU == <<pqVars, tbVars, nbVars, ebVars, fnVars>>
notTB == <<pqVars, lruVars, nbVars, ebVars, fnVars>>
notNB == <<pqVars, lruVars, tbVars, ebVars, fnVars>>
notEB == <<pqVars, lruVars, tbVars, nbVars, fnVars>>
notFn == <<pqVars, lruVars, tbVars, nbVars, ebVars>>

\* extractMax's null, in the shape of an entry (ids start at 1)
NullEntry == [id |-> 0, priority |-> 0, ref |-> 0]

(***************************************************************************)
(* Bounds                                                                  *)
(***************************************************************************)
MaxInserts == 4       \* insert calls in SpecPQ
Priorities == {1, 3, 5, 9}
MaxSnapInserts == 2   \* insert calls in SpecPQSnapshot
NestedValues == {0, 1}
MaxCapacity == 2      \* LRUCache capacities are 0..MaxCapacity
MaxCalls == 5         \* LRUCache calls in SpecLRU
LRUKeys == {1, 2, 3}
LRUValues == {1, 2}
MaxTBCapacity == 2    \* TokenBucket capacities are 1..MaxTBCapacity tokens
MaxSeconds == 2       \* the clock runs to MaxSeconds seconds
RefillRates == {1, 2}
ClockSteps == {250, 1000}
Amounts == {-1, 0, 1, 2, 3}
MaxGrants == 3        \* granted consume calls logged per bucket
MaxBatchSize == 3     \* batch sizes are 1..MaxBatchSize
MaxFlushInterval == 2 \* flushInterval is 0..MaxFlushInterval units of time
MaxNotifications == 5 \* add calls in SpecNB
MaxRetries == 4       \* maxRetries arguments are -1..MaxRetries
Values == {"v1", "v2"}
Errors == {"TypeError", "Timeout"}
MaxTime == 4          \* instants are 0..MaxTime
MaxBooked == 2        \* booked intervals per findAvailableSlots call
MaxDoctors == 3       \* doctors known; roster length for the two assigners
MaxTickets == 3       \* tickets per roundRobinAssignment call
MaxKnnDoctors == 2    \* roster length per knnRecommendation call
MaxK == 2             \* k of knnRecommendation is 0..MaxK

\* Math.min
Min(a, b) == IF a <= b THEN a ELSE b

(***************************************************************************)
(* PriorityQueue                                                           *)
(***************************************************************************)
At(h, c) == h[c + 1]

\* [h[a], h[b]] = [h[b], h[a]]
Swap(h, a, b) == [h EXCEPT ![a + 1] = h[b + 1], ![b + 1] = h[a + 1]]

\* A mutant of bubbleUp: it stops after one exchange.
bubbleUpOnce(h, index) ==
    IF index > 0
    THEN LET parent == (index - 1) \div 2
         IN  IF At(h, parent).priority >= At(h, index).priority
             THEN h
             ELSE Swap(h, parent, index)
    ELSE h

RECURSIVE bubbleUp(_, _)
bubbleUp(h, index) ==
    IF index > 0
    THEN LET parent == (index - 1) \div 2
         IN  IF At(h, parent).priority >= At(h, index).priority
             THEN h
             ELSE bubbleUp(Swap(h, parent, index), parent)
    ELSE h

\* A mutant of Largest: only the left child is ever considered.
LargestLeftOnly(h, index) ==
    LET left == 2 * index + 1
    IN  IF left < Len(h) /\ At(h, left).priority > At(h, index).priority
        THEN left ELSE index

\* The child bubbleDown exchanges with at `index`, or `index` itself.
Largest(h, index) ==
    LET left  == 2 * index + 1
        right == 2 * index + 2
        l1 == IF left < Len(h) /\ At(h, left).priority > At(h, index).priority
              THEN left ELSE index
    IN  IF right < Len(h) /\ At(h, right).priority > At(h, l1).priority
        THEN right ELSE l1

RECURSIVE bubbleDown(_, _)
bubbleDown(h, index) ==
    LET largest == Largest(h, index)
    IN  IF largest = index
        THEN h
        ELSE bubbleDown(Swap(h, index, largest), largest)

\* heap after insert(ticket)
insert(h, ticket) == bubbleUp(Append(h, ticket), Len(h))

\* heap after extractMax() on a non-empty heap: heap[0] = last; pop; sift
extractMaxHeap(h) ==
    LET moved  == [h EXCEPT ![1] = h[Len(h)]]
        popped == SubSeq(moved, 1, Len(h) - 1)
    IN  IF Len(popped) > 0 THEN bubbleDown(popped, 0) ELSE popped

\* getAll(): this.heap.map(item => ({ ...item })): a new array of new
\* objects, each holding the top-level fields of the heap's object.  The
\* field `ref` is the address of a nested object and is copied as it is.
getAll(h) == [c \in 1..Len(h) |-> [id |-> h[c].id,
                                   priority |-> h[c].priority,
                                   ref |-> h[c].ref]]

InitPQ ==
    /\ heap = <<>>
    /\ store = [a \in {} |-> 0]
    /\ snapshot = <<>>
    /\ pqOp = "new"
    /\ pqRet = NullEntry
    /\ extracted = <<>>
    /\ run = 0
    /\ inserted = <<>>

\* insert(ticket): the ticket has a fresh id, any priority and one nested
\* object (address = its id) whose field starts at 0.
InsertUpTo(bound) ==
    /\ Len(inserted) < bound
    /\ \E p \in Priorities :
          LET ticket == [id |-> Len(inserted) + 1, priority |-> p,
                         ref |-> Len(inserted) + 1]
          IN  /\ heap' = insert(heap, ticket)
              /\ store' = [a \in DOMAIN store \cup {ticket.ref} |->
                              IF a = ticket.ref THEN 0 ELSE store[a]]
              /\ inserted' = Append(inserted, ticket)
    /\ pqOp' = "insert"
    /\ pqRet' = NullEntry
    /\ run' = 0
    /\ UNCHANGED <<snapshot, extracted, notPQ>>

Insert == InsertUpTo(MaxInserts)

ExtractMax ==
    /\ pqOp' = "extractMax"
    /\ IF Len(heap) = 0
       THEN /\ pqRet' = NullEntry
            /\ UNCHANGED <<heap, extracted, run>>
       ELSE /\ pqRet' = heap[1]
            /\ heap' = extractMaxHeap(heap)
            /\ extracted' = Append(extracted, heap[1])
            /\ run' = run + 1
    /\ UNCHANGED <<store, snapshot, inserted, notPQ>>

\* const snap = queue.getAll()
GetAll ==
    /\ Len(heap) > 0
    /\ snapshot' = getAll(heap)
    /\ pqOp' = "getAll"
    /\ pqRet' = NullEntry
    /\ UNCHANGED <<heap, store, extracted, run, inserted, notPQ>>

\* The caller's mutations of the returned value.
\* [snap[a], snap[b]] = [snap[b], snap[a]]
SnapshotReorder ==
    /\ \E a, b \in 0..Len(snapshot) - 1 :
          /\ a < b
          /\ snapshot' = Swap(snapshot, a, b)
    /\ pqOp' = "mutate"
    /\ UNCHANGED <<heap, store, pqRet, extracted, run, inserted, notPQ>>

\* snap.pop()
SnapshotTruncate ==
    /\ Len(snapshot) > 0
    /\ snapshot' = SubSeq(snapshot, 1, Len(snapshot) - 1)
    /\ pqOp' = "mutate"
    /\ UNCHANGED <<heap, store, pqRet, extracted, run, inserted, notPQ>>

\* snap[c].priority = p
SnapshotSetPriority ==
    /\ \E c \in 0..Len(snapshot) - 1, p \in Priorities :
          /\ p # At(snapshot, c).priority
          /\ snapshot' = [snapshot EXCEPT ![c + 1].priority = p]
    /\ pqOp' = "mutate"
    /\ UNCHANGED <<heap, store, pqRet, extracted, run, inserted, notPQ>>

\* snap[c].nested.field = v: a write through the address the copy holds
SnapshotSetNested ==
    /\ \E c \in 0..Len(snapshot) - 1, v \in NestedValues :
          /\ v # store[At(snapshot, c).ref]
          /\ store' = [store EXCEPT ![At(snapshot, c).ref] = v]
    /\ pqOp' = "mutate"
    /\ UNCHANGED <<heap, snapshot, pqRet, extracted, run, inserted, notPQ>>

InsertSnap == InsertUpTo(MaxSnapInserts)

(***************************************************************************)
(* LRUCache.  A JavaScript Map iterates in insertion order: set() of a     *)
(* new key appends it, set() of a present key keeps its place, delete()    *)
(* removes it.  The Map is the sequence of its [key, value] entries.       *)
(***************************************************************************)
Keys(c) == {c[j].key : j \in DOMAIN c}

\* Map.prototype.has
MapHas(c, key) == key \in Keys(c)

\* Map.prototype.get of a present key
MapGet(c, key) == (CHOOSE j \in DOMAIN c : c[j].key = key)

\* Map.prototype.delete
MapDelete(c, key) == SelectSeq(c, LAMBDA e : e.key # key)

\* Map.prototype.set
MapSet(c, key, value) ==
    IF MapHas(c, key)
    THEN [j \in DOMAIN c |-> IF c[j].key = key
                             THEN [key |-> key, value |-> value] ELSE c[j]]
    ELSE Append(c, [key |-> key, value |-> value])

\* A mutant of get: the hit returns the value without delete + set.
getNoRefresh(c, key) == c

\* the Map after get(key)
get(c, key) ==
    IF ~MapHas(c, key)
    THEN c
    ELSE LET value == c[MapGet(c, key)].value
         IN  MapSet(MapDelete(c, key), key, value)

\* A mutant of put: the overflow test is >= instead of >.
putEvictEarly(c, cap, key, value) ==
    LET c1 == IF MapHas(c, key) THEN MapDelete(c, key) ELSE c
        c2 == MapSet(c1, key, value)
    IN  IF Len(c2) >= cap THEN MapDelete(c2, c2[1].key) ELSE c2

\* the Map after put(key, value): this.cache.keys().next().value is the
\* first key in insertion order
put(c, cap, key, value) ==
    LET c1 == IF MapHas(c, key) THEN MapDelete(c, key) ELSE c
        c2 == MapSet(c1, key, value)
    IN  IF Len(c2) > cap THEN MapDelete(c2, c2[1].key) ELSE c2

getSize(c) == Len(c)

\* new LRUCache(capacity)
InitLRU ==
    /\ cache = <<>>
    /\ lruCapacity \in 0..MaxCapacity
    /\ lruLog = <<>>

IdleLRU == cache = <<>> /\ lruCapacity = 0 /\ lruLog = <<>>

Get ==
    /\ Len(lruLog) < MaxCalls
    /\ \E key \in LRUKeys :
          /\ cache' = get(cache, key)
          /\ lruLog' = Append(lruLog, [op |-> "get", key |-> key,
                                       hit |-> MapHas(cache, key)])
    /\ UNCHANGED <<lruCapacity, notLRU>>

Put ==
    /\ Len(lruLog) < MaxCalls
    /\ \E key \in LRUKeys, value \in LRUValues :
          /\ cache' = put(cache, lruCapacity, key, value)
          /\ lruLog' = Append(lruLog, [op |-> "put", key |-> key,
                                       hit |-> MapHas(cache, key)])
    /\ UNCHANGED <<lruCapacity, notLRU>>

Clear ==
    /\ Len(lruLog) < MaxCalls
    /\ cache' = <<>>
    /\ lruLog' = Append(lruLog, [op |-> "clear", key |-> 0, hit |-> FALSE])
    /\ UNCHANGED <<lruCapacity, notLRU>>

(***************************************************************************)
(* TokenBucket.  Times are in ms; token counts are kept in thousandths of  *)
(* a token, so that (elapsed ms / 1000) * refillRate is elapsed * rate.    *)
(***************************************************************************)
Milli == 1000

\* A mutant of refill: the count is not capped at the capacity.
refillUncapped(tk, last, clock, cap, rate) == tk + (clock - last) * rate

\* this.tokens after refill(): min(capacity, tokens + elapsed * refillRate)
refill(tk, last, clock, cap, rate) ==
    Min(cap * Milli, tk + (clock - last) * rate)

\* A mutant of consume: a failed call takes what tokens there are.
consumePartial(tk, amount) ==
    IF tk >= amount * Milli
    THEN [tokens |-> tk - amount * Milli, ok |-> TRUE]
    ELSE [tokens |-> 0, ok |-> FALSE]

\* consume(amount) after its refill: the new count and the value returned
consume(tk, amount) ==
    IF tk >= amount * Milli
    THEN [tokens |-> tk - amount * Milli, ok |-> TRUE]
    ELSE [tokens |-> tk, ok |-> FALSE]

\* Math.floor(this.tokens)
getAvailableTokens(tk) == tk \div Milli

\* new TokenBucket(capacity, refillRate)
InitTB ==
    /\ now = 0
    /\ tbCapacity \in 1..MaxTBCapacity
    /\ refillRate \in RefillRates
    /\ tokens = tbCapacity * Milli
    /\ lastRefill = 0
    /\ tbCall = [op |-> "new", amount |-> 0, ok |-> TRUE, avail |-> 0]
    /\ grants = <<>>

IdleTB ==
    /\ now = 0
    /\ tbCapacity = 1
    /\ refillRate = 1
    /\ tokens = Milli
    /\ lastRefill = 0
    /\ tbCall = [op |-> "new", amount |-> 0, ok |-> TRUE, avail |-> 0]
    /\ grants = <<>>

\* Clock time passes between calls.
Tick ==
    /\ \E d \in ClockSteps :
          /\ now + d <= MaxSeconds * Milli
          /\ now' = now + d
    /\ tbCall' = [op |-> "tick", amount |-> 0, ok |-> TRUE, avail |-> 0]
    /\ UNCHANGED <<tbCapacity, refillRate, tokens, lastRefill, grants, notTB>>

Consume ==
    /\ \E amount \in Amounts :
          LET refilled == refill(tokens, lastRefill, now, tbCapacity, refillRate)
              res == consume(refilled, amount)
          IN  /\ tokens' = res.tokens
              /\ tbCall' = [op |-> "consume", amount |-> amount,
                            ok |-> res.ok, avail |-> 0]
    /\ lastRefill' = now
    /\ UNCHANGED <<now, tbCapacity, refillRate, grants, notTB>>

\* consume(amount) with amount > 0; a granted call is logged
ConsumePositive ==
    /\ Len(grants) < MaxGrants
    /\ \E amount \in {a \in Amounts : a > 0} :
          LET refilled == refill(tokens, lastRefill, now, tbCapacity, refillRate)
              res == consume(refilled, amount)
          IN  /\ tokens' = res.tokens
              /\ tbCall' = [op |-> "consume", amount |-> amount,
                            ok |-> res.ok, avail |-> 0]
              /\ grants' = IF res.ok
                           THEN Append(grants, [t |-> now, amount |-> amount])
                           ELSE grants
    /\ lastRefill' = now
    /\ UNCHANGED <<now, tbCapacity, refillRate, notTB>>

GetAvailableTokens ==
    /\ tokens' = refill(tokens, lastRefill, now, tbCapacity, refillRate)
    /\ lastRefill' = now
    /\ tbCall' = [op |-> "getAvailableTokens", amount |-> 0, ok |-> TRUE,
                  avail |-> getAvailableTokens(tokens')]
    /\ UNCHANGED <<now, tbCapacity, refillRate, grants, notTB>>

(***************************************************************************)
(* NotificationBatcher.  flush is an async function without an await: its  *)
(* body runs to the end inside the call, and its return value reaches the  *)
(* caller as the value of the promise.                                     *)
(***************************************************************************)
\* A mutant of flush: the timer is neither cleared nor forgotten.
flushKeepsTimer(b, t, pend) ==
    IF Len(b) = 0
    THEN [batch |-> b, timer |-> t, pending |-> pend,
          toSend |-> <<>>, flushed |-> FALSE, armed |-> FALSE]
    ELSE [batch |-> <<>>, timer |-> t, pending |-> pend,
          toSend |-> b, flushed |-> TRUE, armed |-> FALSE]

\* flush(): the fields after the call, the snapshot taken
flush(b, t, pend) ==
    IF Len(b) = 0
    THEN [batch |-> b, timer |-> t, pending |-> pend,
          toSend |-> <<>>, flushed |-> FALSE, armed |-> FALSE]
    ELSE [batch |-> <<>>, timer |-> 0, pending |-> pend \ {t},
          toSend |-> b, flushed |-> TRUE, armed |-> FALSE]

\* A mutant of add: the threshold test is > instead of >=.
addLate(b, size, t, pend, notification, handle) ==
    LET b1 == Append(b, notification)
    IN  IF Len(b1) > size
        THEN flush(b1, t, pend)
        ELSE IF t = 0
             THEN [batch |-> b1, timer |-> handle,
                   pending |-> pend \cup {handle},
                   toSend |-> <<>>, flushed |-> FALSE, armed |-> TRUE]
             ELSE [batch |-> b1, timer |-> t, pending |-> pend,
                   toSend |-> <<>>, flushed |-> FALSE, armed |-> FALSE]

\* A mutant of add: every add below the threshold replaces the timer by a
\* new one.
addRearms(b, size, t, pend, notification, handle) ==
    LET b1 == Append(b, notification)
    IN  IF Len(b1) >= size
        THEN flush(b1, t, pend)
        ELSE [batch |-> b1, timer |-> handle,
              pending |-> (pend \ {t}) \cup {handle},
              toSend |-> <<>>, flushed |-> FALSE, armed |-> TRUE]

\* add(notification); `handle` is what setTimeout would return, `armed`
\* tells that setTimeout was called
add(b, size, t, pend, notification, handle) ==
    LET b1 == Append(b, notification)
    IN  IF Len(b1) >= size
        THEN flush(b1, t, pend)
        ELSE IF t = 0
             THEN [batch |-> b1, timer |-> handle,
                   pending |-> pend \cup {handle},
                   toSend |-> <<>>, flushed |-> FALSE, armed |-> TRUE]
             ELSE [batch |-> b1, timer |-> t, pending |-> pend,
                   toSend |-> <<>>, flushed |-> FALSE, armed |-> FALSE]

\* new NotificationBatcher(batchSize, flushInterval)
InitNB ==
    /\ batch = <<>>
    /\ batchSize \in 1..MaxBatchSize
    /\ timer = 0
    /\ pending = {}
    /\ removed = <<>>
    /\ emitted = <<>>
    /\ nAdded = 0
    /\ nbCall = [op |-> "new", arg |-> 0]
    /\ flushInterval \in 0..MaxFlushInterval
    /\ timerLeft = 0
    /\ age = 0

IdleNB ==
    /\ batch = <<>>
    /\ batchSize = 1
    /\ timer = 0
    /\ pending = {}
    /\ removed = <<>>
    /\ emitted = <<>>
    /\ nAdded = 0
    /\ nbCall = [op |-> "new", arg |-> 0]
    /\ flushInterval = 0
    /\ timerLeft = 0
    /\ age = 0

\* add(notification): notifications are numbered in add order.  The value
\* of the this.flush() call inside add is dropped.
Add ==
    /\ nAdded < MaxNotifications
    /\ LET res == add(batch, batchSize, timer, pending, nAdded + 1, nAdded + 1)
       IN  /\ batch' = res.batch
           /\ timer' = res.timer
           /\ pending' = res.pending
           /\ removed' = IF res.flushed THEN Append(removed, res.toSend)
                         ELSE removed
           /\ timerLeft' = IF res.armed THEN flushInterval
                           ELSE IF res.flushed THEN 0 ELSE timerLeft
           /\ age' = IF res.flushed THEN 0 ELSE age
    /\ nAdded' = nAdded + 1
    /\ nbCall' = [op |-> "add", arg |-> nAdded + 1]
    /\ UNCHANGED <<batchSize, flushInterval, emitted, notNB>>

\* const sent = await batcher.flush(): the caller receives the snapshot
Flush ==
    /\ LET res == flush(batch, timer, pending)
       IN  /\ batch' = res.batch
           /\ timer' = res.timer
           /\ pending' = res.pending
           /\ removed' = IF res.flushed THEN Append(removed, res.toSend)
                         ELSE removed
           /\ emitted' = IF res.flushed THEN Append(emitted, res.toSend)
                         ELSE emitted
           /\ timerLeft' = IF res.flushed THEN 0 ELSE timerLeft
           /\ age' = IF res.flushed THEN 0 ELSE age
    /\ nbCall' = [op |-> "flush", arg |-> 0]
    /\ UNCHANGED <<batchSize, flushInterval, nAdded, notNB>>

\* A timeout that is due fires: setTimeout's callback () => this.flush()
\* runs, and its value goes to the timer machinery, which drops it.
TimerFire ==
    /\ timerLeft = 0
    /\ \E h \in pending :
          LET res == flush(batch, timer, pending \ {h})
          IN  /\ batch' = res.batch
              /\ timer' = res.timer
              /\ pending' = res.pending
              /\ removed' = IF res.flushed THEN Append(removed, res.toSend)
                            ELSE removed
              /\ age' = IF res.flushed THEN 0 ELSE age
              /\ nbCall' = [op |-> "timer", arg |-> h]
    /\ timerLeft' = 0
    /\ UNCHANGED <<batchSize, flushInterval, emitted, nAdded, notNB>>

\* One unit of time passes.  A timeout fires when it is due, so time does
\* not pass while a due timeout is pending.
NBTick ==
    /\ pending # {} => timerLeft > 0
    /\ timerLeft' = IF timerLeft > 0 THEN timerLeft - 1 ELSE 0
    /\ age' = IF batch # <<>> THEN age + 1 ELSE age
    /\ nbCall' = [op |-> "tick", arg |-> 0]
    /\ UNCHANGED <<batch, batchSize, timer, pending, removed, emitted,
                   nAdded, flushInterval, notNB>>

(***************************************************************************)
(* exponentialBackoff.  The async function runs from one await to the      *)
(* next: the loop test with the call of operation(), the settling of the   *)
(* awaited operation, the end of the awaited delay.                        *)
(***************************************************************************)
RECURSIVE Pow2(_)
Pow2(n) == IF n <= 0 THEN 1 ELSE 2 * Pow2(n - 1)

\* A mutant of IsLastAttempt: i === maxRetries.
IsLastAttemptOffByOne(index, retries) == index = retries

\* i === maxRetries - 1
IsLastAttempt(index, retries) == index = retries - 1

\* A mutant of Delay: a delay that grows linearly.
DelayLinear(index) == (index + 1) * 1000

\* Math.pow(2, i) * 1000
Delay(index) == Pow2(index) * 1000

NoOutcome == [kind |-> "pending", val |-> ""]

\* exponentialBackoff(operation, maxRetries) has been called
InitEB ==
    /\ maxRetries \in -1..MaxRetries
    /\ ebPc = "test"
    /\ i = 0
    /\ inFlight = 0
    /\ attempts = 0
    /\ ebLog = <<>>
    /\ delays = <<>>
    /\ outcome = NoOutcome

IdleEB ==
    /\ maxRetries = 0
    /\ ebPc = "test"
    /\ i = 0
    /\ inFlight = 0
    /\ attempts = 0
    /\ ebLog = <<>>
    /\ delays = <<>>
    /\ outcome = NoOutcome

\* for (...; i < maxRetries; ...) { try { return await operation(); ...
\* or, past the loop, the function's end: it returns undefined
LoopTest ==
    /\ ebPc = "test"
    /\ IF i < maxRetries
       THEN /\ ebPc' = "await_op"
            /\ inFlight' = inFlight + 1
            /\ attempts' = attempts + 1
            /\ UNCHANGED outcome
       ELSE /\ ebPc' = "done"
            /\ outcome' = [kind |-> "undefined", val |-> ""]
            /\ UNCHANGED <<inFlight, attempts>>
    /\ UNCHANGED <<maxRetries, i, ebLog, delays, notEB>>

\* the awaited operation() resolves: return its value
OperationResolves ==
    /\ ebPc = "await_op"
    /\ \E v \in Values :
          /\ ebLog' = Append(ebLog, [ok |-> TRUE, val |-> v])
          /\ outcome' = [kind |-> "value", val |-> v]
    /\ inFlight' = inFlight - 1
    /\ ebPc' = "done"
    /\ UNCHANGED <<maxRetries, i, attempts, delays, notEB>>

\* the awaited operation() rejects: catch (error) { ... }
OperationRejects ==
    /\ ebPc = "await_op"
    /\ \E e \in Errors :
          /\ ebLog' = Append(ebLog, [ok |-> FALSE, val |-> e])
          /\ IF IsLastAttempt(i, maxRetries)
             THEN /\ outcome' = [kind |-> "error", val |-> e]
                  /\ ebPc' = "done"
                  /\ UNCHANGED delays
             ELSE /\ delays' = Append(delays, Delay(i))
                  /\ ebPc' = "await_delay"
                  /\ UNCHANGED outcome
    /\ inFlight' = inFlight - 1
    /\ UNCHANGED <<maxRetries, i, attempts, notEB>>

\* the awaited setTimeout promise resolves; i++
DelayElapsed ==
    /\ ebPc = "await_delay"
    /\ i' = i + 1
    /\ ebPc' = "test"
    /\ UNCHANGED <<maxRetries, inFlight, attempts, ebLog, delays, outcome, notEB>>

(***************************************************************************)
(* The pure functions.  A behaviour makes one call: the action draws the   *)
(* arguments and records them with the value returned.                     *)
(***************************************************************************)
IdleFn ==
    /\ fnCall = "none"
    /\ fnArgs = [none |-> TRUE]
    /\ fnResult = [none |-> TRUE]

(***************************************************************************)
(* findAvailableSlots.  Instants are integers (Date values in some unit);  *)
(* new Date(x) of a valid instant is that instant.                         *)
(***************************************************************************)
Instants == 0..MaxTime

\* the intervals a caller may pass: start <= end
Intervals == {iv \in [start : Instants, end : Instants] : iv.start <= iv.end}

RECURSIVE SeqsUpTo(_, _)
SeqsUpTo(S, n) ==
    IF n = 0 THEN {<<>>}
    ELSE LET shorter == SeqsUpTo(S, n - 1)
         IN  shorter \cup {Append(q, x) : q \in shorter, x \in S}

\* One step of the stable sort by start: slot goes after every element
\* whose start is <= its own.
RECURSIVE InsertByStart(_, _)
InsertByStart(sorted, slot) ==
    IF sorted = <<>> THEN <<slot>>
    ELSE IF Head(sorted).start <= slot.start
         THEN <<Head(sorted)>> \o InsertByStart(Tail(sorted), slot)
         ELSE <<slot>> \o sorted

\* bookedSlots.map(...).sort((a, b) => a.start - b.start): a stable sort
RECURSIVE SortByStart(_)
SortByStart(slots) ==
    IF slots = <<>> THEN <<>>
    ELSE InsertByStart(SortByStart(SubSeq(slots, 1, Len(slots) - 1)),
                       slots[Len(slots)])

\* the for loop over sortedSlots: [currentTime, available] after it
RECURSIVE Sweep(_, _, _)
Sweep(sortedSlots, currentTime, available) ==
    IF sortedSlots = <<>>
    THEN [currentTime |-> currentTime, available |-> available]
    ELSE LET slot == Head(sortedSlots)
             pushed == IF currentTime < slot.start
                       THEN Append(available, [start |-> currentTime,
                                               end |-> slot.start])
                       ELSE available
             advanced == IF currentTime >= slot.end THEN currentTime
                         ELSE slot.end
         IN  Sweep(Tail(sortedSlots), advanced, pushed)

findAvailableSlots(bookedSlots, startTime, endTime) ==
    LET swept == Sweep(SortByStart(bookedSlots), startTime, <<>>)
    IN  IF swept.currentTime < endTime
        THEN Append(swept.available, [start |-> swept.currentTime,
                                      end |-> endTime])
        ELSE swept.available

FindAvailableSlots ==
    /\ fnCall = "none"
    /\ \E bookedSlots \in SeqsUpTo(Intervals, MaxBooked),
          startTime \in Instants, endTime \in Instants :
          /\ fnArgs' = [bookedSlots |-> bookedSlots, startTime |-> startTime,
                        endTime |-> endTime]
          /\ fnResult' = findAvailableSlots(bookedSlots, startTime, endTime)
    /\ fnCall' = "findAvailableSlots"
    /\ UNCHANGED notFn

(***************************************************************************)
(* Doctor assignment: roundRobinAssignment, leastLoadAssignment and        *)
(* knnRecommendation.  A text is a sequence of one-character strings, a    *)
(* token a non-empty text.                                                 *)
(***************************************************************************)
Null == [null |-> TRUE]

Undefined == [undefined |-> TRUE]

DoctorIds == 1..MaxDoctors

Range(q) == {q[j] : j \in DOMAIN q}

\* the sequences over S of length <= n without a repeated id
RostersOf(S, n) ==
    {q \in SeqsUpTo(S, n) :
        \A j, l \in DOMAIN q : q[j].id = q[l].id => j = l}

\* the doctors of the two assigners, which read nothing but the id
PlainDoctors == [id : DoctorIds]

SymptomTexts ==
    { <<>>,
      <<" ">>,
      <<"a">>,
      <<"A", ",", "b">>,
      <<"a", "b">>,
      <<"a", " ", "a", " ", "a", " ", "b", " ", "c">> }

SpecialtyTexts ==
    { <<>>,
      <<"a">>,
      <<"B">>,
      <<"b", ",", " ", "c">>,
      <<"a", " ", "x", " ", "y">> }

\* a doctor of knnRecommendation; the specialties field may be missing
KnnDoctors ==
    [id : DoctorIds, specialties : SpecialtyTexts] \cup [id : DoctorIds]

LoadValues == {-1, 0, 1, 2}

\* currentLoads: an object with a load for some of the doctor ids
LoadMaps == UNION {[ids -> LoadValues] : ids \in SUBSET DoctorIds}

TicketIds == 1..MaxTickets

\* doctors[doctorIndex % doctors.length]: n % 0 is NaN and an array has
\* nothing at index NaN
DoctorAt(doctors, doctorIndex) ==
    IF Len(doctors) = 0 THEN Undefined
    ELSE doctors[(doctorIndex % Len(doctors)) + 1]

roundRobinAssignment(tickets, doctors) ==
    [j \in DOMAIN tickets |->
        [id |-> tickets[j].id, assignedDoctor |-> DoctorAt(doctors, j - 1)]]

\* currentLoads[doctor.id] || 0
LoadOf(currentLoads, doctor) ==
    IF doctor.id \in DOMAIN currentLoads THEN currentLoads[doctor.id] ELSE 0

\* load <= minLoad, which lets the last of several equal loads win
LoadLessOrEqual(load, acc) == acc.infinite \/ load <= acc.minLoad

\* load < minLoad, where minLoad is Infinity until a doctor is selected
LoadLess(load, acc) == acc.infinite \/ load < acc.minLoad

\* the forEach of leastLoadAssignment: [infinite, minLoad, selectedDoctor]
RECURSIVE ForEachDoctor(_, _, _)
ForEachDoctor(doctors, currentLoads, acc) ==
    IF doctors = <<>> THEN acc
    ELSE LET doctor == Head(doctors)
             load == LoadOf(currentLoads, doctor)
         IN  ForEachDoctor(Tail(doctors), currentLoads,
                 IF LoadLess(load, acc)
                 THEN [infinite |-> FALSE, minLoad |-> load,
                       selectedDoctor |-> doctor]
                 ELSE acc)

\* a selectedDoctor that starts as the doctor of id 1, not as null
leastLoadAssignmentDefault(doctors, currentLoads) ==
    ForEachDoctor(doctors, currentLoads,
        [infinite |-> TRUE, minLoad |-> 0,
         selectedDoctor |-> [id |-> 1]]).selectedDoctor

leastLoadAssignment(doctors, currentLoads) ==
    ForEachDoctor(doctors, currentLoads,
        [infinite |-> TRUE, minLoad |-> 0,
         selectedDoctor |-> Null]).selectedDoctor

\* String.prototype.toLowerCase, one character at a time
LowerChar(c) ==
    IF c = "A" THEN "a" ELSE IF c = "B" THEN "b" ELSE c

toLowerCase(text) == [j \in DOMAIN text |-> LowerChar(text[j])]

\* the characters /[\s,]/ matches
Separators == {" ", ","}

\* String.prototype.split(/[\s,]+/): the pieces between maximal runs of
\* separators, an empty piece before a leading and after a trailing run
RECURSIVE SplitFrom(_, _, _, _)
SplitFrom(text, pieces, current, inRun) ==
    IF text = <<>> THEN Append(pieces, current)
    ELSE IF Head(text) \in Separators
         THEN IF inRun THEN SplitFrom(Tail(text), pieces, current, TRUE)
              ELSE SplitFrom(Tail(text), Append(pieces, current), <<>>, TRUE)
         ELSE SplitFrom(Tail(text), pieces, Append(current, Head(text)),
                        FALSE)

split(text) == SplitFrom(text, <<>>, <<>>, FALSE)

NonEmpty(piece) == piece # <<>>

\* text.toLowerCase().split(/[\s,]+/).filter(s => s)
Tokens(text) == SelectSeq(split(toLowerCase(text)), NonEmpty)

\* doctor.specialties || ''
SpecialtiesOf(doctor) ==
    IF "specialties" \in DOMAIN doctor THEN doctor.specialties ELSE <<>>

\* symp.filter(s => doctorSpecialties.includes(s)).length
CommonTerms(symp, doctorSpecialties) ==
    Len(SelectSeq(symp, LAMBDA t : t \in Range(doctorSpecialties)))

\* commonTerms.length / Math.max(symp.length, doctorSpecialties.length) as
\* the fraction num / den; 0 / 0 is NaN
Similarity(symp, doctor) ==
    LET doctorSpecialties == Tokens(SpecialtiesOf(doctor))
    IN  [num |-> CommonTerms(symp, doctorSpecialties),
         den |-> IF Len(symp) >= Len(doctorSpecialties) THEN Len(symp)
                 ELSE Len(doctorSpecialties)]

\* x > y on fractions; false when either is NaN, as every comparison with
\* NaN is
FractionGreater(x, y) ==
    x.den # 0 /\ y.den # 0 /\ x.num * y.den > y.num * x.den

\* similarity > 0
Positive(d) == d.similarity.den # 0 /\ d.similarity.num > 0

\* One step of the stable sort by descending similarity: d goes before the
\* first element whose similarity is smaller.  A NaN similarity arises only
\* when there is no symptom token, and then no element is greater than
\* another.
RECURSIVE InsertBySimilarity(_, _)
InsertBySimilarity(sorted, d) ==
    IF sorted = <<>> THEN <<d>>
    ELSE IF FractionGreater(d.similarity, Head(sorted).similarity)
         THEN <<d>> \o sorted
         ELSE <<Head(sorted)>> \o InsertBySimilarity(Tail(sorted), d)

\* distances.sort((a, b) => b.similarity - a.similarity)
RECURSIVE SortBySimilarity(_)
SortBySimilarity(distances) ==
    IF distances = <<>> THEN <<>>
    ELSE InsertBySimilarity(
             SortBySimilarity(SubSeq(distances, 1, Len(distances) - 1)),
             distances[Len(distances)])

\* Array.prototype.slice(0, k) for k >= 0
SliceTo(q, k) == SubSeq(q, 1, Min(k, Len(q)))

knnRecommendation(symptoms, doctors, k) ==
    LET symp == Tokens(symptoms)
        distances == [j \in DOMAIN doctors |->
                         [doctor |-> doctors[j],
                          similarity |-> Similarity(symp, doctors[j])]]
    IN  SelectSeq(SliceTo(SortBySimilarity(distances), k), Positive)

RoundRobinAssignment ==
    /\ fnCall = "none"
    /\ \E tickets \in SeqsUpTo([id : TicketIds], MaxTickets),
          doctors \in RostersOf(PlainDoctors, MaxDoctors) :
          /\ fnArgs' = [tickets |-> tickets, doctors |-> doctors]
          /\ fnResult' = roundRobinAssignment(tickets, doctors)
    /\ fnCall' = "roundRobinAssignment"
    /\ UNCHANGED notFn

LeastLoadAssignment ==
    /\ fnCall = "none"
    /\ \E doctors \in RostersOf(PlainDoctors, MaxDoctors),
          currentLoads \in LoadMaps :
          /\ fnArgs' = [doctors |-> doctors, currentLoads |-> currentLoads]
          /\ fnResult' = leastLoadAssignment(doctors, currentLoads)
    /\ fnCall' = "leastLoadAssignment"
    /\ UNCHANGED notFn

KnnRecommendation ==
    /\ fnCall = "none"
    /\ \E symptoms \in SymptomTexts,
          doctors \in RostersOf(KnnDoctors, MaxKnnDoctors),
          k \in 0..MaxK :
          /\ fnArgs' = [symptoms |-> symptoms, doctors |-> doctors, k |-> k]
          /\ fnResult' = knnRecommendation(symptoms, doctors, k)
    /\ fnCall' = "knnRecommendation"
    /\ UNCHANGED notFn

(***************************************************************************)
(* Specifications                                                          *)
(***************************************************************************)
InitSpecPQ == InitPQ /\ IdleLRU /\ IdleTB /\ IdleNB /\ IdleEB /\ IdleFn

NextPQ == Insert \/ ExtractMax

SpecPQ == InitSpecPQ /\ [][NextPQ]_vars

NextPQSnapshot ==
    \/ InsertSnap
    \/ ExtractMax
    \/ GetAll
    \/ SnapshotReorder
    \/ SnapshotTruncate
    \/ SnapshotSetPriority
    \/ SnapshotSetNested

SpecPQSnapshot == InitSpecPQ /\ [][NextPQSnapshot]_vars

InitSpecLRU == InitPQ /\ InitLRU /\ IdleTB /\ IdleNB /\ IdleEB /\ IdleFn

NextLRU == Get \/ Put \/ Clear

SpecLRU == InitSpecLRU /\ [][NextLRU]_vars

InitSpecTB == InitPQ /\ IdleLRU /\ InitTB /\ IdleNB /\ IdleEB /\ IdleFn

NextTB == Tick \/ Consume \/ GetAvailableTokens

SpecTB == InitSpecTB /\ [][NextTB]_vars

\* the bucket used with positive amounts only
NextTBPositive == Tick \/ ConsumePositive \/ GetAvailableTokens

SpecTBPositive == InitSpecTB /\ [][NextTBPositive]_vars

InitSpecNB == InitPQ /\ IdleLRU /\ IdleTB /\ InitNB /\ IdleEB /\ IdleFn

NextNB == Add \/ Flush \/ TimerFire \/ NBTick

SpecNB == InitSpecNB /\ [][NextNB]_vars

\* Time passes, and the timer machinery runs the callback of a due timeout.
SpecNBFair == SpecNB /\ WF_vars(NBTick) /\ WF_vars(TimerFire)

InitSpecEB == InitPQ /\ IdleLRU /\ IdleTB /\ IdleNB /\ InitEB /\ IdleFn

NextEB == LoopTest \/ OperationResolves \/ OperationRejects \/ DelayElapsed

SpecEB == InitSpecEB /\ [][NextEB]_vars

InitSpecFn == InitPQ /\ IdleLRU /\ IdleTB /\ IdleNB /\ IdleEB /\ IdleFn

NextSlots == FindAvailableSlots

SpecSlots == InitSpecFn /\ [][NextSlots]_vars

NextAssign ==
    \/ RoundRobinAssignment
    \/ LeastLoadAssignment
    \/ KnnRecommendation

SpecAssign == InitSpecFn /\ [][NextAssign]_vars

(***************************************************************************)
(* PriorityQueue: claims                                                   *)
(***************************************************************************)
Count(e, s) == Cardinality({j \in DOMAIN s : s[j] = e})

PrioritiesOf(s) == [j \in DOMAIN s |-> s[j].priority]

\* C1: after any sequence of insert and extractMax calls, every heap index
\* c > 0 satisfies heap[floor((c-1)/2)].priority >= heap[c].priority.
C1_HeapProperty ==
    \A c \in 1..Len(heap) - 1 :
        At(heap, (c - 1) \div 2).priority >= At(heap, c).priority

\* An extractMax has just sifted down a heap that still holds three or
\* more entries, two of them with equal priorities.
C1_Witness ==
    /\ pqOp = "extractMax"
    /\ pqRet # NullEntry
    /\ Len(heap) >= 3
    /\ \E a, b \in 1..Len(heap) : a # b /\ heap[a].priority = heap[b].priority

\* An extractMax call on a non-empty queue returns an entry of the queue
\* whose priority is >= that of every remaining entry, and the remaining
\* multiset is the previous one minus the returned entry; on an empty queue
\* it returns null and the queue stays empty.
C2_ExtractStep ==
    pqOp' = "extractMax" =>
        IF heap = <<>>
        THEN pqRet' = NullEntry /\ heap' = <<>>
        ELSE /\ Count(pqRet', heap) >= 1
             /\ \A c \in 1..Len(heap') : pqRet'.priority >= heap'[c].priority
             /\ Len(heap') = Len(heap) - 1
             /\ \A c \in 1..Len(heap) :
                    Count(heap[c], heap') =
                        Count(heap[c], heap) - (IF heap[c] = pqRet' THEN 1 ELSE 0)

\* The entries returned since the last insert come in non-increasing
\* priority order, and every inserted entry is either still queued or has
\* been returned, exactly once.
C2_DrainOrder ==
    /\ \A j \in (Len(extracted) - run + 1)..(Len(extracted) - 1) :
           extracted[j].priority >= extracted[j + 1].priority
    /\ Len(heap) + Len(extracted) = Len(inserted)
    /\ \A j \in 1..Len(inserted) :
           Count(inserted[j], heap) + Count(inserted[j], extracted) = 1

\* C2: each extractMax on a non-empty queue returns a maximum-priority entry
\* and removes exactly that entry; draining returns every inserted entry
\* exactly once in non-increasing priority order, then null.
C2_ExtractionOrder == [][C2_ExtractStep]_vars /\ []C2_DrainOrder

\* The queue populated with priorities [5,1,9,3] has been drained, yielding
\* 9,5,3,1, and one more extractMax has returned null.
C2_Witness ==
    /\ PrioritiesOf(inserted) = <<5, 1, 9, 3>>
    /\ PrioritiesOf(extracted) = <<9, 5, 3, 1>>
    /\ run = 4
    /\ heap = <<>>
    /\ pqOp = "extractMax"
    /\ pqRet = NullEntry

\* What a caller can observe of the queue: its entries in heap order, each
\* with the value of its nested field.
QueueState ==
    [c \in 1..Len(heap) |-> [id |-> heap[c].id,
                             priority |-> heap[c].priority,
                             nested |-> store[heap[c].ref]]]

\* C3: getAll leaves the heap unchanged and returns a deep, independent
\* snapshot: no mutation of the returned value (reordering, truncating,
\* changing a returned entry's priority or a field nested inside it)
\* changes the queue's state.
C3_CopyIsolation ==
    [][/\ pqOp' = "getAll" => heap' = heap
       /\ pqOp' = "mutate" => QueueState' = QueueState]_vars

(***************************************************************************)
(* LRUCache: claims                                                        *)
(***************************************************************************)
\* Whether call e of the log accessed `key`: a put of it, or a get hit.
Accessed(e, key) ==
    /\ e.key = key
    /\ e.op = "put" \/ (e.op = "get" /\ e.hit)

\* The position in the log of the most recent access of `key` (0: none).
LastAccess(log, key) ==
    LET at == {j \in DOMAIN log : Accessed(log[j], key)}
    IN  IF at = {} THEN 0 ELSE CHOOSE j \in at : \A x \in at : x <= j

LastCall == lruLog'[Len(lruLog')]

\* A put of a new key that overflows the capacity evicts the entry whose
\* most recent access is the oldest among the entries present; a get miss
\* changes nothing.
C4_Step ==
    Len(lruLog') = Len(lruLog) + 1 =>
        LET present == Keys(cache) \cup {LastCall.key}
        IN  /\ (/\ LastCall.op = "put"
                /\ ~MapHas(cache, LastCall.key)
                /\ Len(cache) + 1 > lruCapacity)
               => \E victim \in present :
                     /\ Keys(cache') = present \ {victim}
                     /\ \A x \in present :
                           LastAccess(lruLog', victim) <= LastAccess(lruLog', x)
            /\ (LastCall.op = "get" /\ ~MapHas(cache, LastCall.key))
               => cache' = cache

\* C4: when a put of a new key overflows the capacity, the entry evicted is
\* the one whose most recent access (get hit or put) is oldest among all
\* entries present; a get miss does not change recency.
C4_EvictionVictim == [][C4_Step]_vars

\* Capacity 2: put(a), put(b), get(a), put(c) has evicted b, not a.
C4_Witness ==
    /\ lruCapacity = 2
    /\ lruLog = <<[op |-> "put", key |-> 1, hit |-> FALSE],
                  [op |-> "put", key |-> 2, hit |-> FALSE],
                  [op |-> "get", key |-> 1, hit |-> TRUE],
                  [op |-> "put", key |-> 3, hit |-> FALSE]>>
    /\ Keys(cache) = {1, 3}

\* getSize() <= capacity, and the Map holds every key once.
C5_SizeBound ==
    /\ getSize(cache) <= lruCapacity
    /\ Cardinality(Keys(cache)) = Len(cache)

\* A put into a full cache of a new key evicts exactly one entry; any other
\* put evicts nothing, and an overwriting put leaves the size unchanged.
C5_Step ==
    (Len(lruLog') = Len(lruLog) + 1 /\ LastCall.op = "put") =>
        LET key == LastCall.key
            gone == (Keys(cache) \cup {key}) \ Keys(cache')
        IN  /\ Keys(cache') \subseteq Keys(cache) \cup {key}
            /\ IF ~MapHas(cache, key) /\ getSize(cache) >= lruCapacity
               THEN Cardinality(gone) = 1
               ELSE gone = {}
            /\ MapHas(cache, key) => getSize(cache') = getSize(cache)

\* C5: after every call getSize() <= capacity; a put evicts exactly one
\* entry when it inserts a new key into a full cache and nothing otherwise.
C5_CapacityBound == []C5_SizeBound /\ [][C5_Step]_vars

\* An overwriting put of a key of a full cache of capacity 2 has returned,
\* after an earlier put had evicted an entry.
C5_Witness ==
    /\ lruCapacity = 2
    /\ Len(lruLog) >= 4
    /\ lruLog[Len(lruLog)].op = "put"
    /\ lruLog[Len(lruLog)].hit
    /\ getSize(cache) = 2
    /\ \E k \in LRUKeys : LastAccess(lruLog, k) > 0 /\ ~MapHas(cache, k)

(***************************************************************************)
(* TokenBucket: claims                                                     *)
(***************************************************************************)
\* C6: for any sequence of consume(amount) and getAvailableTokens() calls
\* (any requested amount) and any passage of clock time, the stored count
\* satisfies 0 <= tokens <= capacity after every call.
C6_Conservation == 0 <= tokens /\ tokens <= tbCapacity * Milli

\* The count the lazy refill gives at the time of the call.
Refilled ==
    LET grown == tokens + (now - lastRefill) * refillRate
    IN  IF grown > tbCapacity * Milli THEN tbCapacity * Milli ELSE grown

\* What a consume call does: after the lazy refill it returns true and
\* takes exactly amount iff the refilled count is >= amount; a failed call
\* takes nothing and leaves the refilled state.
C7_ConsumeStep ==
    tbCall'.op = "consume" =>
        /\ tbCall'.ok <=> Refilled >= tbCall'.amount * Milli
        /\ tbCall'.ok => tokens' = Refilled - tbCall'.amount * Milli
        /\ ~tbCall'.ok => tokens' = Refilled
        /\ lastRefill' = now
        /\ UNCHANGED <<tbCapacity, refillRate>>

\* C7, as amended: consume(amount) first applies the lazy refill, then
\* returns true and decreases the count by exactly amount if and only if the
\* refilled count is >= amount; a call that returns false consumes nothing
\* and leaves the bucket in its refilled state (tokens = the refilled count,
\* lastRefill = the time of the call).
C7_Consume == [][C7_ConsumeStep]_vars

\* A consume has failed on a bucket whose refill had left it a fraction of
\* a token.
C7_Witness ==
    /\ tbCall.op = "consume"
    /\ ~tbCall.ok
    /\ tbCall.amount = 1
    /\ 0 < tokens /\ tokens < Milli
    /\ lastRefill = now
    /\ now > 0

\* C7, as claimed: a call that returns false leaves the bucket's state the
\* same as before the call.
C7_FailedCallNoEffect ==
    [][(tbCall'.op = "consume" /\ ~tbCall'.ok)
          => (tokens' = tokens /\ lastRefill' = lastRefill)]_vars

\* the sum of the amounts granted at the times t1..t2
RECURSIVE GrantedIn(_, _, _)
GrantedIn(log, t1, t2) ==
    IF log = <<>> THEN 0
    ELSE (IF t1 <= Head(log).t /\ Head(log).t <= t2 THEN Head(log).amount
          ELSE 0) + GrantedIn(Tail(log), t1, t2)

GrantTimes == {grants[j].t : j \in DOMAIN grants}

\* An inspection or a failed consume changes nothing of what a later call
\* finds; a tick of d ms adds d * refillRate / 1000 tokens up to the
\* capacity, whatever calls precede and follow it.
C20_RefillStep ==
    /\ (tbCall'.op = "getAvailableTokens" \/
            (tbCall'.op = "consume" /\ ~tbCall'.ok)) =>
          (Refilled' = Refilled /\ grants' = grants)
    /\ (tbCall'.op = "consume" /\ tbCall'.ok) =>
          Refilled' = Refilled - tbCall'.amount * Milli
    /\ tbCall'.op = "tick" =>
          Refilled' = Min(tbCapacity * Milli,
                          Refilled + (now' - now) * refillRate)

\* C20: with a non-decreasing clock and positive amounts, the amounts
\* granted by successful consume calls made in [t1, t2] sum to at most
\* capacity + refillRate * (t2 - t1) seconds, however consume and
\* getAvailableTokens calls are interleaved with elapsed time: inspections
\* and failed calls neither create nor destroy tokens.
C20_AdmissionRate ==
    /\ [](\A t1, t2 \in GrantTimes :
            t1 <= t2 =>
                GrantedIn(grants, t1, t2) * Milli
                    <= tbCapacity * Milli + refillRate * (t2 - t1))
    /\ [][C20_RefillStep]_vars

\* A full bucket of capacity 2 was emptied at time 0 and, after failed
\* calls and inspections in between, has granted the two tokens refilled
\* by time 1000 at rate 2.
C20_Witness ==
    /\ tbCapacity = 2
    /\ refillRate = 2
    /\ Len(grants) >= 2
    /\ grants[1] = [t |-> 0, amount |-> 2]
    /\ grants[Len(grants)].t = 1000
    /\ GrantedIn(grants, 0, 1000) = 4
    /\ tbCall.op = "consume"
    /\ tbCall.ok
    /\ lastRefill = now

(***************************************************************************)
(* NotificationBatcher: claims                                             *)
(***************************************************************************)
RECURSIVE Flatten(_)
Flatten(ss) == IF ss = <<>> THEN <<>> ELSE Head(ss) \o Flatten(Tail(ss))

\* Notifications are numbered in add order: s is in insertion order.
InAddOrder(s) == \A a, b \in DOMAIN s : a < b => s[a] < s[b]

\* The add that brings the batch to batchSize items flushes exactly those
\* items, in insertion order, and returns with the batch empty; every add
\* returns with fewer than batchSize items pending.
C8_AddStep ==
    nbCall'.op = "add" =>
        /\ Len(batch) + 1 = batchSize =>
              /\ Len(removed') = Len(removed) + 1
              /\ removed'[Len(removed')] = Append(batch, nbCall'.arg)
              /\ Len(removed'[Len(removed')]) = batchSize
              /\ InAddOrder(removed'[Len(removed')])
              /\ batch' = <<>>
        /\ Len(batch) + 1 < batchSize =>
              /\ removed' = removed
              /\ batch' = Append(batch, nbCall'.arg)
        /\ Len(batch') < batchSize

\* C8: the add call that brings the pending batch to batchSize items
\* triggers an immediate flush of exactly those items in insertion order and
\* leaves the batch empty; the pending batch length is always < batchSize.
C8_Threshold == [][C8_AddStep]_vars /\ [](Len(batch) < batchSize)

\* With batchSize 3, the third add of a batch has flushed its three items,
\* after an earlier batch had left on a timer or an explicit flush.
C8_Witness ==
    /\ batchSize = 3
    /\ nbCall.op = "add"
    /\ batch = <<>>
    /\ Len(removed) >= 2
    /\ Len(removed[Len(removed)]) = 3

\* C9: every flush (by the size threshold inside add, by the timer, or by
\* an explicit call) emits its snapshot to the transport/caller: the
\* batches emitted, concatenated, are the notifications removed from the
\* pending batch, in add order, without loss or duplication.
C9_Delivery == Flatten(emitted) = Flatten(removed)

\* A timer is armed only by the add that puts the first item into an empty
\* batch; an add into a non-empty batch leaves the pending timer and its
\* due time alone unless it flushes; a step that empties the batch leaves
\* no timer pending; a timer fires only on a non-empty batch.
C16_TimerStep ==
    /\ ~(pending' \subseteq pending) =>
          /\ nbCall'.op = "add"
          /\ batch = <<>>
          /\ batch' = <<nbCall'.arg>>
          /\ timerLeft' = flushInterval
    /\ (nbCall'.op = "add" /\ batch # <<>> /\ batch' # <<>>) =>
          /\ pending' = pending
          /\ timer' = timer
          /\ timerLeft' = timerLeft
    /\ (batch # <<>> /\ batch' = <<>>) => (pending' = {} /\ timer' = 0)
    /\ nbCall'.op = "timer" => (batch # <<>> /\ batch' = <<>>)

\* C16: across any sequence of add, explicit flush and timer-fire events at
\* most one flush timer is pending; a timer is armed only by the add that
\* puts the first item into an empty batch and later adds neither re-arm
\* nor extend it; every flush of a non-empty batch leaves no timer pending;
\* a timer is pending exactly when the batch is non-empty, and none fires
\* on or outlives a flushed batch.
C16_TimerDiscipline ==
    /\ [][C16_TimerStep]_vars
    /\ [](/\ Cardinality(pending) <= 1
          /\ pending # {} <=> batch # <<>>
          /\ pending = IF timer = 0 THEN {} ELSE {timer})

\* A second batch waits on its own timer, armed by its first add and kept
\* by its second, after the first batch left when its timer fired.
C16_Witness ==
    /\ batchSize = 3
    /\ Len(batch) = 2
    /\ nbCall.op = "add"
    /\ Len(removed) = 1
    /\ Len(removed[1]) = 1
    /\ pending = {timer}
    /\ timer = batch[1]

\* C17: when a due timer fires, every notification passed to add leaves
\* the pending batch, at the latest flushInterval after the add that put
\* the first item into the then-empty batch, whether or not another add or
\* an explicit flush happens.
C17_BoundedResponse ==
    /\ (batch # <<>>) ~> (batch = <<>>)
    /\ [](batch # <<>> => age <= flushInterval)
    /\ [][age' > age => (batch # <<>> /\ age' + timerLeft' = flushInterval)]_vars

\* A batch of two, below the threshold, has left on its timer a full
\* flushInterval after its first add.
C17_Witness ==
    /\ batchSize = 3
    /\ flushInterval = MaxFlushInterval
    /\ nbCall.op = "timer"
    /\ batch = <<>>
    /\ Len(removed) = 1
    /\ Len(removed[1]) = 2
    /\ emitted = <<>>

(***************************************************************************)
(* exponentialBackoff: claims                                              *)
(***************************************************************************)
Failed(log) == \A j \in DOMAIN log : ~log[j].ok

Max(a, b) == IF a >= b THEN a ELSE b

\* At most max(maxRetries, 0) attempts and one at a time; a successful
\* attempt is the last one and its value is the result; when all maxRetries
\* attempts have failed the call has thrown the last attempt's error.
C10_Outcome ==
    /\ inFlight <= 1
    /\ attempts <= Max(maxRetries, 0)
    /\ Len(ebLog) + inFlight = attempts
    /\ \A j \in DOMAIN ebLog :
          ebLog[j].ok =>
              /\ j = Len(ebLog)
              /\ ebPc = "done"
              /\ outcome = [kind |-> "value", val |-> ebLog[j].val]
    /\ (maxRetries >= 1 /\ Len(ebLog) = maxRetries /\ Failed(ebLog)) =>
              /\ ebPc = "done"
              /\ outcome = [kind |-> "error", val |-> ebLog[Len(ebLog)].val]
    /\ outcome.kind = "error" =>
              /\ Len(ebLog) = maxRetries
              /\ Failed(ebLog)
              /\ outcome.val = ebLog[Len(ebLog)].val

\* An attempt starts only when none is in flight and, unless it is the
\* first, after the previous attempt has failed and its delay has elapsed.
C10_AttemptStep ==
    attempts' = attempts + 1 =>
        /\ inFlight = 0
        /\ outcome = NoOutcome
        /\ Len(ebLog) = attempts
        /\ Failed(ebLog)
        /\ Len(delays) = attempts
        /\ i = attempts

\* C10: the operation is invoked strictly sequentially, at most maxRetries
\* times, never again after a success (whose value is the result); if all
\* maxRetries attempts fail, the error thrown is the last attempt's error,
\* unchanged, whatever its kind.
C10_AttemptProtocol == []C10_Outcome /\ [][C10_AttemptStep]_vars

\* maxRetries = 3 and three attempts have failed with errors of different
\* kinds: the call has thrown the third one.
C10_Witness ==
    /\ maxRetries = 3
    /\ ebLog = <<[ok |-> FALSE, val |-> "TypeError"],
                 [ok |-> FALSE, val |-> "TypeError"],
                 [ok |-> FALSE, val |-> "Timeout"]>>
    /\ ebPc = "done"
    /\ outcome = [kind |-> "error", val |-> "Timeout"]
    /\ delays = <<1000, 2000>>

\* the delay the claim gives after the j-th failure: 1000, 2000, 4000, ...
RECURSIVE ClaimedDelay(_)
ClaimedDelay(j) == IF j <= 1 THEN 1000 ELSE 2 * ClaimedDelay(j - 1)

\* The failure of attempt i with i < maxRetries - 1 starts a wait of
\* 2^i * 1000 ms, at whose end attempt i + 1 starts; a success and the
\* failure of the last attempt start no wait and settle the call at once.
C18_DelayStep ==
    /\ (Len(ebLog') = Len(ebLog) + 1 /\ ~ebLog'[Len(ebLog')].ok) =>
          IF i < maxRetries - 1
          THEN /\ delays' = Append(delays, ClaimedDelay(i + 1))
               /\ ebPc' = "await_delay"
               /\ outcome' = NoOutcome
          ELSE /\ delays' = delays
               /\ ebPc' = "done"
               /\ outcome' = [kind |-> "error",
                              val |-> ebLog'[Len(ebLog')].val]
    /\ (Len(ebLog') = Len(ebLog) + 1 /\ ebLog'[Len(ebLog')].ok) =>
          /\ delays' = delays
          /\ ebPc' = "done"
    /\ delays' # delays =>
          (Len(ebLog') = Len(ebLog) + 1 /\ ~ebLog'[Len(ebLog')].ok)
    /\ ebPc = "await_delay" =>
          /\ attempts' = attempts
          /\ i' = i + 1
          /\ ebPc' = "test"

\* C18: after the failure of zero-indexed attempt i with i < maxRetries - 1
\* the helper waits exactly 2^i * 1000 ms before it starts attempt i + 1
\* (1000, 2000, 4000, ...); it takes no delay after a successful attempt or
\* after the failure of the last attempt, whose error propagates at once.
C18_DelaySchedule ==
    /\ [][C18_DelayStep]_vars
    /\ [](/\ \A j \in DOMAIN delays : delays[j] = ClaimedDelay(j)
          /\ Len(delays) <= Max(maxRetries - 1, 0)
          /\ ebPc = "done" =>
                Len(delays) = IF outcome.kind = "undefined" THEN 0
                              ELSE Len(ebLog) - 1)

\* Three failures have been followed by the waits 1000, 2000 and 4000 and
\* the fourth attempt has succeeded, with no wait after it.
C18_Witness ==
    /\ maxRetries = 4
    /\ delays = <<1000, 2000, 4000>>
    /\ Len(ebLog) = 4
    /\ ebLog[4].ok
    /\ ebPc = "done"

\* C19: for every maxRetries (0 and negative values included) and every
\* operation whose attempts each complete, the call completes only after
\* the operation has been attempted at least once, and its outcome is the
\* value of a successful attempt or the error of the final failed attempt;
\* it never completes normally without an attempt having succeeded.
C19_Outcome ==
    ebPc = "done" =>
        /\ attempts >= 1
        /\ \/ /\ outcome.kind = "value"
              /\ ebLog[Len(ebLog)] = [ok |-> TRUE, val |-> outcome.val]
           \/ /\ outcome.kind = "error"
              /\ ebLog[Len(ebLog)] = [ok |-> FALSE, val |-> outcome.val]

(***************************************************************************)
(* findAvailableSlots: claims                                              *)
(***************************************************************************)
\* Instant t stands for the unit of time [t, t + 1); an interval covers it
\* when start <= t < end.
Covers(iv, t) == iv.start <= t /\ t < iv.end

CoveredBy(ivs, t) == \E j \in DOMAIN ivs : Covers(ivs[j], t)

\* C11: for every set of booked intervals and every window [start, end)
\* with start < end, the gaps returned are non-empty, in ascending order,
\* pairwise disjoint, contained in the window, intersect no booked interval
\* and cover every instant of the window that no booked interval covers.
C11_GapCorrectness ==
    (fnCall = "findAvailableSlots" /\ fnArgs.startTime < fnArgs.endTime) =>
        /\ \A j \in DOMAIN fnResult :
              /\ fnResult[j].start < fnResult[j].end
              /\ fnArgs.startTime <= fnResult[j].start
              /\ fnResult[j].end <= fnArgs.endTime
        /\ \A j \in 1..Len(fnResult) - 1 :
              fnResult[j].end <= fnResult[j + 1].start
        /\ \A t \in Instants :
              CoveredBy(fnResult, t) <=>
                  /\ fnArgs.startTime <= t /\ t < fnArgs.endTime
                  /\ ~CoveredBy(fnArgs.bookedSlots, t)

\* C12: for every set of booked intervals, a zero-length window
\* (start = end) or an inverted window (start > end) yields no gap.
C12_DegenerateWindow ==
    (fnCall = "findAvailableSlots" /\ fnArgs.startTime >= fnArgs.endTime) =>
        fnResult = <<>>

(***************************************************************************)
(* Doctor assignment: claims                                               *)
(***************************************************************************)
EmptyRosterCall(name) == fnCall = name /\ fnArgs.doctors = <<>>

\* C13: with an empty doctor list, roundRobinAssignment (for any ticket
\* list), leastLoadAssignment and knnRecommendation each return a value that
\* reports no assignment: every ticket round robin returns has no assigned
\* doctor, least load returns null, and KNN returns no doctor.
C13_EmptyRoster ==
    /\ EmptyRosterCall("roundRobinAssignment") =>
          /\ Len(fnResult) = Len(fnArgs.tickets)
          /\ \A j \in DOMAIN fnResult :
                /\ fnResult[j].id = fnArgs.tickets[j].id
                /\ fnResult[j].assignedDoctor = Undefined
    /\ EmptyRosterCall("leastLoadAssignment") => fnResult = Null
    /\ EmptyRosterCall("knnRecommendation") => fnResult = <<>>

C13_Witness ==
    /\ EmptyRosterCall("roundRobinAssignment")
    /\ Len(fnArgs.tickets) = MaxTickets
    /\ Len(fnResult) = MaxTickets

\* the load the claim gives a doctor: the map's entry, 0 when it has none
ClaimedLoad(j) ==
    IF fnArgs.doctors[j].id \in DOMAIN fnArgs.currentLoads
    THEN fnArgs.currentLoads[fnArgs.doctors[j].id]
    ELSE 0

\* C14: for every non-empty roster and every load map, leastLoadAssignment
\* returns a roster member whose load is minimal over the roster, and the
\* first in roster order of the doctors with that load.
C14_LeastLoad ==
    (fnCall = "leastLoadAssignment" /\ fnArgs.doctors # <<>>) =>
        \E j \in DOMAIN fnArgs.doctors :
            /\ fnResult = fnArgs.doctors[j]
            /\ \A l \in DOMAIN fnArgs.doctors :
                  /\ ClaimedLoad(j) <= ClaimedLoad(l)
                  /\ l < j => ClaimedLoad(j) < ClaimedLoad(l)

\* a tie at the minimum between a doctor missing from the map and a later
\* one with load 0, after a doctor with a larger load
C14_Witness ==
    /\ fnCall = "leastLoadAssignment"
    /\ Len(fnArgs.doctors) = 3
    /\ fnResult = fnArgs.doctors[2]
    /\ fnArgs.doctors[2].id \notin DOMAIN fnArgs.currentLoads
    /\ ClaimedLoad(1) > 0
    /\ ClaimedLoad(3) = 0
    /\ fnArgs.doctors[3].id \in DOMAIN fnArgs.currentLoads

\* how often token t occurs in the token list q
Occurrences(q, t) == Cardinality({j \in DOMAIN q : q[j] = t})

\* |symptom tokens n specialty tokens| / max(|symptom tokens|, |specialty
\* tokens|) with the tokens taken as sets
SetSimilarity(doctor) ==
    LET symp == Range(Tokens(fnArgs.symptoms))
        spec == Range(Tokens(SpecialtiesOf(doctor)))
    IN  [num |-> Cardinality(symp \cap spec),
         den |-> Max(Cardinality(symp), Cardinality(spec))]

\* the same with the tokens taken as lists: a token is common as often as
\* it occurs in both
BagSimilarity(doctor) ==
    LET symp == Tokens(fnArgs.symptoms)
        spec == Tokens(SpecialtiesOf(doctor))
        common == Range(symp) \cap Range(spec)
        RECURSIVE Sum(_)
        Sum(T) == IF T = {} THEN 0
                  ELSE LET t == CHOOSE t \in T : TRUE
                       IN  Min(Occurrences(symp, t), Occurrences(spec, t))
                               + Sum(T \ {t})
    IN  [num |-> Sum(common), den |-> Max(Len(symp), Len(spec))]

\* x > y on the claim's similarities, where no token at all (0 / 0) counts
\* as similarity 0
ClaimGreater(x, y) == x.num * Max(y.den, 1) > y.num * Max(x.den, 1)

\* the claim's properties of the result for the similarity Sim
KnnResultRanked(Sim(_)) ==
    LET included == {fnResult[j].doctor : j \in DOMAIN fnResult}
        positive == {d \in Range(fnArgs.doctors) : Sim(d).num > 0}
    IN  /\ Len(fnResult) <= fnArgs.k
        /\ included \subseteq positive
        /\ Cardinality(included) = Len(fnResult)
        /\ \A j \in 1..Len(fnResult) - 1 :
              ~ClaimGreater(Sim(fnResult[j + 1].doctor),
                            Sim(fnResult[j].doctor))
        /\ \A d \in Range(fnArgs.doctors) \ included, e \in included :
              ~ClaimGreater(Sim(d), Sim(e))
        /\ Cardinality(positive) < fnArgs.k => included = positive
        /\ \A d \in included : Tokens(SpecialtiesOf(d)) # <<>>
        /\ Tokens(fnArgs.symptoms) = <<>> => fnResult = <<>>

\* C15: with similarity(d) = |symptom tokens n specialty tokens of d| /
\* max(|symptom tokens|, |specialty tokens of d|), knnRecommendation returns
\* at most k doctors, each of similarity > 0, in order of non-increasing
\* similarity, no doctor left out being more similar than one returned (all
\* the doctors of positive similarity when they are fewer than k); a doctor
\* without specialty tokens is never returned and no tokens at all give no
\* match.  The formula is read with the tokens as sets or as lists.
C15_KnnRanking ==
    fnCall = "knnRecommendation" =>
        KnnResultRanked(SetSimilarity) \/ KnnResultRanked(BagSimilarity)

=============================================================================
